---------------------------- MODULE Spec2Model ----------------------------
(***************************************************************************)
(* libipld: the Ipld value model (core/src/ipld.rs, core/src/error.rs) and *)
(* the DagCbor derive code generator (dag-cbor-derive/src/gen.rs).         *)
(*                                                                         *)
(* The generator is modelled by interpreting the descriptor the way the    *)
(* generated code executes: one operator per gen_* function, taking the    *)
(* descriptor and the run-time arguments of the generated function.        *)
(*                                                                         *)
(* Strings are sequences of byte values (UTF-8 of ASCII text), the wire    *)
(* is a sequence of bytes.  Option<T> is a sequence of length 0 or 1.      *)
(***************************************************************************)
EXTENDS Integers, Sequences, FiniteSets, TLC

VARIABLES
    ty,      \* codec: the derive input (record or union descriptor)
    x,       \* codec: the value of that type handed to encode
    w,       \* codec: the bytes written by encode (the sink)
    res,     \* codec: the outcome of the last decode
    input,   \* codec: the generic Ipld value whose encoding was probed
    pc,      \* position of the codec scenario / of the Ipld scenario
    ipld,    \* value model: the Ipld value under test
    index,   \* value model: the IpldIndex of the last get/take
    got,     \* value model: result of the last get
    taken,   \* value model: result of the last take
    stack,   \* value model: IpldIter.stack
    yielded, \* value model: the items next() has returned so far, in order
    set      \* value model: the accumulator handed to references()

vars == <<ty, x, w, res, input, pc, ipld, index, got, taken, stack, yielded, set>>
codec_vars == <<ty, x, w, res, input>>
ipld_vars == <<ipld, index, got, taken, stack, yielded, set>>

(***************************************************************************)
(* Bounds of the model.                                                    *)
(***************************************************************************)
MaxFields == 2       \* fields of a generated record descriptor
MaxVariants == 2     \* variants of a generated union descriptor
MaxNodes == 3        \* nodes of a generated Ipld value
MaxIndex == 2        \* largest position handed to get/take
UsizeBits == 8       \* width of usize in the model

None == <<>>
Some(v) == <<v>>

\* the element of a one-element set: { e(t) : t \in {call} } names the
\* result of a call once, as a Rust let binding does
Only(S) == CHOOSE v \in S : TRUE

(***************************************************************************)
(* Strings.                                                                *)
(***************************************************************************)
str_A == <<65>>
str_B == <<66>>
str_C == <<67>>
str_D == <<68>>
str_E == <<69>>
str_Z == <<90>>
str_b == <<98>>
str_n == <<110>>
str_boolean == <<98, 111, 111, 108, 101, 97, 110>>
str_hashAlg == <<104, 97, 115, 104, 65, 108, 103>>
str_hash_alg == <<104, 97, 115, 104, 95, 97, 108, 103>>
str_murmur3 == <<109, 117, 114, 109, 117, 114, 51>>

\* mutant of to_string: drops the digits above the last one
to_string_last_digit(i) == <<48 + (i % 10)>>

\* u64/usize to_string(): canonical decimal digits
RECURSIVE to_string(_)
to_string(i) ==
    IF i < 10 THEN <<48 + i>> ELSE to_string(i \div 10) \o <<48 + (i % 10)>>

\* Ord for String: byte-wise lexicographic
RECURSIVE StrLess(_, _)
StrLess(a, b) ==
    IF b = <<>> THEN FALSE
    ELSE IF a = <<>> THEN TRUE
    ELSE IF Head(a) # Head(b) THEN Head(a) < Head(b)
    ELSE StrLess(Tail(a), Tail(b))

\* the elements of a finite set of strings in ascending order
RECURSIVE SortedKeys(_)
SortedKeys(S) ==
    IF S = {} THEN <<>>
    ELSE LET m == CHOOSE k \in S : \A o \in S \ {k} : StrLess(k, o)
         IN <<m>> \o SortedKeys(S \ {m})

\* the elements of a finite set of integers in ascending order
RECURSIVE SortedInts(_)
SortedInts(S) ==
    IF S = {} THEN <<>>
    ELSE LET m == CHOOSE k \in S : \A o \in S : k <= o
         IN <<m>> \o SortedInts(S \ {m})

RECURSIVE Pow2(_)
Pow2(n) == IF n = 0 THEN 1 ELSE 2 * Pow2(n - 1)

UsizeMax == Pow2(UsizeBits) - 1

\* <usize as FromStr>::from_str(s).ok(): optional '+', then one or more
\* decimal digits, overflow is an error
RECURSIVE parse_digits(_, _)
parse_digits(s, acc) ==
    IF s = <<>> THEN Some(acc)
    ELSE IF Head(s) < 48 \/ Head(s) > 57 THEN None
    ELSE LET n == acc * 10 + (Head(s) - 48)
         IN IF n > UsizeMax THEN None ELSE parse_digits(Tail(s), n)

parse(s) ==
    IF s = <<>> THEN None
    ELSE IF Head(s) = 43
         THEN (IF Tail(s) = <<>> THEN None ELSE parse_digits(Tail(s), 0))
         ELSE parse_digits(s, 0)


\* <i64 as FromStr>::from_str(s).ok(): optional sign, then digits
parse_i64(s) ==
    IF s = <<>> THEN None
    ELSE IF Head(s) = 45
         THEN (IF Tail(s) = <<>> THEN None
               ELSE LET m == parse_digits(Tail(s), 0)
                    IN IF Len(m) = 0 THEN None ELSE Some(0 - m[1]))
         ELSE parse(s)

(***************************************************************************)
(* core/src/ipld.rs: enum Ipld.  A value is <<tag, v>>:                    *)
(*   Null <<>> | Bool b | Integer i | String s | List <<..>> |             *)
(*   StringMap [keys -> Ipld] | IntegerMap [ints -> Ipld] | Link cid |     *)
(*   Tag <<tag, inner>>                                                    *)
(***************************************************************************)
Null == <<"Null", <<>>>>
Bool(b) == <<"Bool", b>>
Integer(i) == <<"Integer", i>>
String(s) == <<"String", s>>
List(l) == <<"List", l>>
StringMap(m) == <<"StringMap", m>>
IntegerMap(m) == <<"IntegerMap", m>>
Link(cid) == <<"Link", cid>>
Tag(t, inner) == <<"Tag", <<t, inner>>>>

\* enum IpldIndex and its three From impls
IpldIndex_List(i) == <<"List", i>>
IpldIndex_Map(key) == <<"Map", key>>
IpldIndex_MapRef(key) == <<"MapRef", key>>

\* core/src/error.rs
TypeErrorType_from_ipld(self) == <<self[1]>>

TypeErrorType_from_index(idx) ==
    IF idx[1] = "List" THEN <<"Index", idx[2]>> ELSE <<"Key", idx[2]>>

TypeError_new(expected, found) == <<"TypeError", expected, found>>

Ok(v) == [k |-> "Ok", v |-> v]
Err(e) == [k |-> "Err", v |-> e]

\* Option<Option<T>>::unwrap_or_default()
unwrap_or_default(o) == IF Len(o) = 0 THEN None ELSE o[1]

\* BTreeMap::get / slice::get
map_get(m, key) == IF key \in DOMAIN m THEN Some(m[key]) ELSE None

slice_get(l, i) == IF i < Len(l) THEN Some(l[i + 1]) ELSE None

\* the position selected on a List / the key selected on an IntegerMap
list_position(idx) == IF idx[1] = "List" THEN Some(idx[2]) ELSE parse(idx[2])

integer_key(idx) == IF idx[1] = "List" THEN Some(idx[2]) ELSE parse_i64(idx[2])

string_key(idx) == IF idx[1] = "List" THEN to_string(idx[2]) ELSE idx[2]

\* Ipld::get
RECURSIVE get(_, _)
get(self, idx) ==
    IF self[1] = "Tag" THEN get(self[2][2], idx)
    ELSE
    LET found ==
            CASE self[1] = "List" ->
                   LET i == list_position(idx)
                   IN IF Len(i) = 0 THEN None ELSE Some(slice_get(self[2], i[1]))
              [] self[1] = "IntegerMap" ->
                   LET i == integer_key(idx)
                   IN IF Len(i) = 0 THEN None ELSE Some(map_get(self[2], i[1]))
              [] self[1] = "StringMap" ->
                   Some(map_get(self[2], string_key(idx)))
              [] OTHER -> None
        r == unwrap_or_default(found)
    IN IF Len(r) = 0
       THEN Err(TypeError_new(TypeErrorType_from_index(idx),
                              TypeErrorType_from_ipld(self)))
       ELSE Ok(r[1])

\* mutant of swap_remove: hands out the element that was swapped in
swap_remove_last(l, i) ==
    LET n == Len(l)
        shrunk == SubSeq(l, 1, n - 1)
    IN [removed |-> l[n],
        rest |-> IF i + 1 = n THEN shrunk ELSE [shrunk EXCEPT ![i + 1] = l[n]]]

\* Vec::swap_remove: the removed element and the vector left behind
swap_remove(l, i) ==
    LET n == Len(l)
        shrunk == SubSeq(l, 1, n - 1)
    IN [removed |-> l[i + 1],
        rest |-> IF i + 1 = n THEN shrunk ELSE [shrunk EXCEPT ![i + 1] = l[n]]]

\* BTreeMap::remove: the map left behind
map_remove(m, key) == [k \in (DOMAIN m) \ {key} |-> m[k]]

\* Ipld::take; self is the receiver as it is left when the call returns
RECURSIVE take(_, _)
take(self, idx) ==
    IF self[1] = "Tag" THEN take(self[2][2], idx)
    ELSE
    LET found ==
            CASE self[1] = "List" ->
                   LET i == list_position(idx)
                   IN IF Len(i) = 0 THEN None
                      ELSE IF i[1] < Len(self[2])
                           THEN Some(Some(swap_remove(self[2], i[1]).removed))
                           ELSE Some(None)
              [] self[1] = "IntegerMap" ->
                   LET i == integer_key(idx)
                   IN IF Len(i) = 0 THEN None ELSE Some(map_get(self[2], i[1]))
              [] self[1] = "StringMap" ->
                   Some(map_get(self[2], string_key(idx)))
              [] OTHER -> None
        after ==
            CASE self[1] = "List" ->
                   LET i == list_position(idx)
                   IN IF Len(i) = 1 /\ i[1] < Len(self[2])
                      THEN List(swap_remove(self[2], i[1]).rest) ELSE self
              [] self[1] = "IntegerMap" ->
                   LET i == integer_key(idx)
                   IN IF Len(i) = 1 THEN IntegerMap(map_remove(self[2], i[1]))
                      ELSE self
              [] self[1] = "StringMap" ->
                   StringMap(map_remove(self[2], string_key(idx)))
              [] OTHER -> self
        r == unwrap_or_default(found)
    IN IF Len(r) = 0
       THEN [k |-> "Err",
             v |-> TypeError_new(TypeErrorType_from_index(idx),
                                 TypeErrorType_from_ipld(after)),
             self |-> after]
       ELSE [k |-> "Ok", v |-> r[1], self |-> after]

(***************************************************************************)
(* IpldIter.  A cursor of the work-list is [kind, items]: the elements a   *)
(* vec::IntoIter, slice::Iter or btree_map::Values still has to yield, or, *)
(* for a boxed IpldIter, that iterator's own stack.                        *)
(***************************************************************************)
Cursor(kind, items) == [kind |-> kind, items |-> items]

\* BTreeMap::values(): the mapped values in ascending key order
string_map_values(m) ==
    LET keys == SortedKeys(DOMAIN m) IN [i \in 1..Len(keys) |-> m[keys[i]]]

integer_map_values(m) ==
    LET keys == SortedInts(DOMAIN m) IN [i \in 1..Len(keys) |-> m[keys[i]]]

\* Ipld::iter
iter(self) == <<Cursor("IntoIter", <<self>>)>>

\* the cursor IpldIter::next pushes for the item it is about to return
push_children(st, item) ==
    CASE item[1] = "List" -> Append(st, Cursor("Iter", item[2]))
      [] item[1] = "StringMap" ->
           Append(st, Cursor("Values", string_map_values(item[2])))
      [] item[1] = "IntegerMap" ->
           Append(st, Cursor("Values", integer_map_values(item[2])))
      [] item[1] = "Tag" -> Append(st, Cursor("IpldIter", iter(item[2][2])))
      [] OTHER -> st

\* IpldIter::next.  item: what the call returns; stack: the work-list when
\* it returns; frames: the deepest nesting of IpldIter::next invocations
\* the call reached, itself included.
RECURSIVE next(_)

\* iter.next() on the cursor on top of the work-list
cursor_next(top) ==
    IF top.kind = "IpldIter"
    THEN Only({ [item |-> r.item, cursor |-> Cursor("IpldIter", r.stack),
                 frames |-> r.frames] :
                r \in {next(top.items)} })
    ELSE IF Len(top.items) = 0
         THEN [item |-> None, cursor |-> top, frames |-> 0]
         ELSE [item |-> Some(Head(top.items)),
               cursor |-> Cursor(top.kind, Tail(top.items)),
               frames |-> 0]

next(st) ==
    IF Len(st) = 0 THEN [item |-> None, stack |-> st, frames |-> 1]
    ELSE
    Only({ IF Len(inner.item) = 1
           THEN [item |-> inner.item,
                 stack |-> push_children([st EXCEPT ![Len(st)] = inner.cursor],
                                         inner.item[1]),
                 frames |-> 1 + inner.frames]
           ELSE Only({ [item |-> r.item, stack |-> r.stack,
                        frames |-> IF r.frames > 1 + inner.frames
                                   THEN r.frames ELSE 1 + inner.frames] :
                       r \in {next(SubSeq(st, 1, Len(st) - 1))} }) :
           inner \in {cursor_next(st[Len(st)])} })

\* Extend<Cid> for Vec<Cid>
extend(acc, item) ==
    IF item[1] = "Link" THEN Append(acc, item[2]) ELSE acc

\* Ipld::references: the for loop over self.iter()
RECURSIVE references_loop(_, _)
references_loop(st, acc) ==
    Only({ IF Len(r.item) = 0 THEN acc
           ELSE references_loop(r.stack, extend(acc, r.item[1])) :
           r \in {next(st)} })

references(self, acc) == references_loop(iter(self), acc)

(***************************************************************************)
(* The Ipld values of the model: every value of at most MaxNodes nodes     *)
(* over the leaves, keys and tag below.                                    *)
(***************************************************************************)
str_1 == <<49>>
str_10 == <<49, 48>>
str_plus1 == <<43, 49>>
str_01 == <<48, 49>>

Leaves == {Integer(7), Link(1), Link(2)}
StringKeys == {str_1, str_10, str_b}
IntegerKeys == {1}

\* the map over the keys ks (ascending as listed in sorted) onto f
map_of(sorted, f) ==
    [key \in {sorted[i] : i \in 1..Len(sorted)} |->
        f[CHOOSE i \in 1..Len(sorted) : sorted[i] = key]]

RECURSIVE Trees(_)
RECURSIVE Forests(_)
Forests(n) ==
    IF n = 0 THEN {<<>>}
    ELSE UNION { { <<t>> \o f : t \in Trees(m), f \in Forests(n - m) } :
                 m \in 1..n }

Trees(n) ==
    (IF n = 1 THEN Leaves ELSE {})
    \cup { List(f) : f \in Forests(n - 1) }
    \cup UNION { { StringMap(map_of(SortedKeys(ks), f)) :
                   ks \in {s \in SUBSET StringKeys : Cardinality(s) = Len(f)} } :
                 f \in Forests(n - 1) }
    \cup UNION { { IntegerMap(map_of(SortedInts(ks), f)) :
                   ks \in {s \in SUBSET IntegerKeys : Cardinality(s) = Len(f)} } :
                 f \in Forests(n - 1) }
    \cup (IF n = 1 THEN {} ELSE { Tag(42, t) : t \in Trees(n - 1) })

IpldValues == UNION { Trees(n) : n \in 1..MaxNodes }

Positions == (0..MaxIndex) \cup {10}

\* the decimal digits of a position below 100
DecimalOf(i) == IF i < 10 THEN <<48 + i>> ELSE <<48 + (i \div 10), 48 + (i % 10)>>

Indexes ==
    { IpldIndex_List(i) : i \in Positions }
    \cup { IpldIndex_Map(DecimalOf(i)) : i \in Positions }
    \cup { IpldIndex_MapRef(key) : key \in {str_1, str_b, str_plus1, str_01} }

\* what the accumulator holds before the call; 9 is no Link of the model
Accumulators == {<<>>, <<9>>}

(***************************************************************************)
(* Value model scenario: one Ipld value; get then take with the same       *)
(* selector, or a traversal with next(), or one call of references().      *)
(***************************************************************************)
InitIpld ==
    /\ ipld \in IpldValues
    /\ set \in Accumulators
    /\ pc = "ready"
    /\ index = None /\ got = None /\ taken = None
    /\ stack = <<>> /\ yielded = <<>>
    /\ ty = None /\ x = None /\ w = <<>> /\ res = None /\ input = None

Get ==
    /\ pc = "ready"
    /\ \E idx \in Indexes :
        /\ index' = idx
        /\ got' = get(ipld, idx)
    /\ pc' = "got"
    /\ UNCHANGED <<ipld, taken, stack, yielded, set>>
    /\ UNCHANGED codec_vars

Take ==
    /\ pc = "got"
    /\ taken' = take(ipld, index)
    /\ pc' = "taken"
    /\ UNCHANGED <<ipld, index, got, stack, yielded, set>>
    /\ UNCHANGED codec_vars

Iter ==
    /\ pc = "ready"
    /\ stack' = iter(ipld)
    /\ pc' = "iterating"
    /\ UNCHANGED <<ipld, index, got, taken, yielded, set>>
    /\ UNCHANGED codec_vars

IterNext ==
    /\ pc = "iterating"
    /\ LET r == next(stack)
       IN /\ stack' = r.stack
          /\ IF Len(r.item) = 1
             THEN yielded' = Append(yielded, r.item[1]) /\ pc' = pc
             ELSE yielded' = yielded /\ pc' = "exhausted"
    /\ UNCHANGED <<ipld, index, got, taken, set>>
    /\ UNCHANGED codec_vars

References ==
    /\ pc = "ready"
    /\ set' = references(ipld, set)
    /\ pc' = "collected"
    /\ UNCHANGED <<ipld, index, got, taken, stack, yielded>>
    /\ UNCHANGED codec_vars

NextIpld == Get \/ Take \/ Iter \/ IterNext \/ References

SpecIpld == InitIpld /\ [][NextIpld]_vars

(***************************************************************************)
(* DAG-CBOR primitives the generated code calls (libipld::cbor::encode,    *)
(* libipld::cbor::decode).  Typed Rust values are <<type, value>> with     *)
(* type "bool", "u32", "u64" or "String".  A reader call returns           *)
(* [k, v, r]: k = "Some" with the value v, "None" (not this shape) or      *)
(* "Err" with the error v; r is the input left unread.                     *)
(***************************************************************************)
LengthOutOfRange == <<"LengthOutOfRange">>
UnexpectedEof == <<"UnexpectedEof">>
UnexpectedCode == <<"UnexpectedCode">>
UnexpectedKey == <<"UnexpectedKey">>

Matched(v, r) == [k |-> "Some", v |-> v, r |-> r]
NotThisShape(r) == [k |-> "None", v |-> <<>>, r |-> r]
Malformed(e, r) == [k |-> "Err", v |-> e, r |-> r]

\* write_u64(w, major, value): the bytes appended to w
write_u64(major, value) ==
    IF value <= 23 THEN <<major * 32 + value>>
    ELSE IF value <= 255 THEN <<major * 32 + 24, value>>
    ELSE IF value <= 65535
         THEN <<major * 32 + 25, value \div 256, value % 256>>
         ELSE <<major * 32 + 26, value \div 16777216, (value \div 65536) % 256,
                (value \div 256) % 256, value % 256>>

\* write_null(w)
write_null == <<246>>

\* Encode::encode for bool, u32/u64 and str/String
encode_prim(v) ==
    CASE v[1] = "bool" -> <<IF v[2] THEN 245 ELSE 244>>
      [] v[1] \in {"u32", "u64"} -> write_u64(0, v[2])
      [] v[1] = "String" -> write_u64(3, Len(v[2])) \o v[2]

\* read_u8(r)
read_u8(r) ==
    IF Len(r) = 0 THEN Malformed(UnexpectedEof, r)
    ELSE Matched(Head(r), Tail(r))

\* big-endian unsigned integer of n bytes
RECURSIVE be_value(_)
be_value(bytes) ==
    IF Len(bytes) = 0 THEN 0
    ELSE be_value(SubSeq(bytes, 1, Len(bytes) - 1)) * 256 + bytes[Len(bytes)]

read_uint(r, n) ==
    IF Len(r) < n THEN Malformed(UnexpectedEof, <<>>)
    ELSE Matched(be_value(SubSeq(r, 1, n)), SubSeq(r, n + 1, Len(r)))

\* read_len(r, low): low is the leading marker minus its kind's base
read_len(r, low) ==
    IF low <= 23 THEN Matched(low, r)
    ELSE IF low = 24 THEN read_uint(r, 1)
    ELSE IF low = 25 THEN read_uint(r, 2)
    ELSE IF low = 26 THEN read_uint(r, 4)
    ELSE IF low = 27 THEN read_uint(r, 8)
    ELSE Malformed(UnexpectedCode, r)

\* read_bytes(r, n)
read_bytes(r, n) ==
    IF Len(r) < n THEN Malformed(UnexpectedEof, <<>>)
    ELSE Matched(SubSeq(r, 1, n), SubSeq(r, n + 1, Len(r)))

\* TryReadCbor::try_read_cbor(r, major) for bool, u32/u64 and String
try_read_prim(t, r, major) ==
    CASE t = "bool" ->
           IF major = 244 THEN Matched(<<t, FALSE>>, r)
           ELSE IF major = 245 THEN Matched(<<t, TRUE>>, r)
           ELSE NotThisShape(r)
      [] t \in {"u32", "u64"} ->
           IF major <= 27
           THEN Only({ IF n.k = "Some" THEN Matched(<<t, n.v>>, n.r) ELSE n :
                       n \in {read_len(r, major)} })
           ELSE NotThisShape(r)
      [] t = "String" ->
           IF major >= 96 /\ major <= 123
           THEN Only({ IF n.k # "Some" THEN n
                       ELSE Only({ IF b.k = "Some" THEN Matched(<<t, b.v>>, b.r)
                                   ELSE b :
                                   b \in {read_bytes(n.r, n.v)} }) :
                       n \in {read_len(r, major - 96)} })
           ELSE NotThisShape(r)

\* libipld::cbor::decode::read, which is Decode::decode of every type here:
\* the probe ran on the leading marker; not this shape is an error.
\* t is the outcome of the probe.
read(t) == IF t.k = "None" THEN Malformed(UnexpectedCode, t.r) ELSE t

decode_prim(t, r) ==
    Only({ IF major.k # "Some" THEN major
           ELSE Only({ read(probe) :
                       probe \in {try_read_prim(t, major.r, major.v)} }) :
           major \in {read_u8(r)} })

\* read_key(r, key): the next item must be the string key
read_key(r, key) ==
    Only({ IF s.k # "Some" THEN s
           ELSE IF s.v[2] = key THEN Matched(<<>>, s.r)
           ELSE Malformed(UnexpectedKey, s.r) :
           s \in {decode_prim("String", r)} })

\* Encode::encode for Ipld (the generic value the tests compare with)
RECURSIVE encode_ipld(_)
RECURSIVE encode_ipld_all(_)
RECURSIVE encode_ipld_entries(_, _)
encode_ipld_all(l) ==
    IF Len(l) = 0 THEN <<>> ELSE encode_ipld(Head(l)) \o encode_ipld_all(Tail(l))

encode_ipld_entries(keys, m) ==
    IF Len(keys) = 0 THEN <<>>
    ELSE encode_prim(<<"String", Head(keys)>>) \o encode_ipld(m[Head(keys)])
         \o encode_ipld_entries(Tail(keys), m)

encode_ipld(v) ==
    CASE v[1] = "Null" -> write_null
      [] v[1] = "Bool" -> encode_prim(<<"bool", v[2]>>)
      [] v[1] = "Integer" -> write_u64(0, v[2])
      [] v[1] = "String" -> encode_prim(<<"String", v[2]>>)
      [] v[1] = "List" -> write_u64(4, Len(v[2])) \o encode_ipld_all(v[2])
      [] v[1] = "StringMap" ->
           write_u64(5, Cardinality(DOMAIN v[2]))
           \o encode_ipld_entries(SortedKeys(DOMAIN v[2]), v[2])

(***************************************************************************)
(* dag-cbor-derive/src/gen.rs.  Descriptors (ast::SchemaType):             *)
(*   Field  [name, rename, default, ty]   name is a syn::Member            *)
(*   Struct [name, rename, repr, fields, construct]                        *)
(*   Union  [name, repr, variants]                                         *)
(* A record value is the sequence of its field values (the bindings of     *)
(* s.pat); a union value is <<variant position, bindings>>.                *)
(***************************************************************************)
Named(ident) == <<"Named", ident>>
Unnamed(i) == <<"Unnamed", i>>

\* mutant of rename: the explicit rename is ignored
rename_ignored(name, renamed) ==
    IF name[1] = "Named" THEN name[2] ELSE to_string(name[2])

\* fn rename
rename(name, renamed) ==
    IF Len(renamed) = 1 THEN renamed[1]
    ELSE IF name[1] = "Named" THEN name[2] ELSE to_string(name[2])

\* fn default: tokens run unless the binding equals the declared default
default(binding, dflt, tokens) ==
    IF Len(dflt) = 1
    THEN (IF binding # dflt[1] THEN tokens ELSE <<>>)
    ELSE tokens

\* s.pat / s.construct: a record is its bindings, a variant adds its position
construct(s, bindings) ==
    IF s.construct[1] = "Struct" THEN bindings ELSE <<s.construct[2], bindings>>

bindings_of(s, self) == IF s.construct[1] = "Struct" THEN self ELSE self[2]

\* the #(#fields)* of the Map arm of gen_encode_struct_body
RECURSIVE encode_map_fields(_, _)
encode_map_fields(fields, bindings) ==
    IF Len(fields) = 0 THEN <<>>
    ELSE LET field == Head(fields)
             key == rename(field.name, field.rename)
         IN default(Head(bindings), field.default,
                    encode_prim(<<"String", key>>) \o encode_prim(Head(bindings)))
            \o encode_map_fields(Tail(fields), Tail(bindings))

\* the #(#fields)* of the Tuple arm of gen_encode_struct_body
RECURSIVE encode_tuple_fields(_, _)
encode_tuple_fields(fields, bindings) ==
    IF Len(fields) = 0 THEN <<>>
    ELSE default(Head(bindings), Head(fields).default, encode_prim(Head(bindings)))
         \o encode_tuple_fields(Tail(fields), Tail(bindings))

\* mutant of gen_encode_struct_body: the Tuple arm writes a map header
gen_encode_struct_body_map_header(s, bindings) ==
    LET len == Len(s.fields)
    IN CASE s.repr = "Map" ->
              write_u64(5, len) \o encode_map_fields(s.fields, bindings)
         [] s.repr = "Tuple" ->
              write_u64(5, len) \o encode_tuple_fields(s.fields, bindings)
         [] s.repr = "Value" ->
              default(bindings[1], s.fields[1].default, encode_prim(bindings[1]))
         [] s.repr = "Null" -> write_null

\* fn gen_encode_struct_body: the bytes the generated body writes
gen_encode_struct_body(s, bindings) ==
    LET len == Len(s.fields)
    IN CASE s.repr = "Map" ->
              write_u64(5, len) \o encode_map_fields(s.fields, bindings)
         [] s.repr = "Tuple" ->
              write_u64(4, len) \o encode_tuple_fields(s.fields, bindings)
         [] s.repr = "Value" ->
              default(bindings[1], s.fields[1].default, encode_prim(bindings[1]))
         [] s.repr = "Null" -> write_null

\* fn gen_encode_struct
gen_encode_struct(s, self) == gen_encode_struct_body(s, bindings_of(s, self))

\* fn gen_encode_union; self is <<position of the variant, bindings>>
gen_encode_union(u, self) ==
    LET s == u.variants[self[1]]
        key == rename(Named(s.name), s.rename)
        value == gen_encode_struct_body(s, self[2])
    IN CASE u.repr = "Keyed" ->
              write_u64(5, 1) \o encode_prim(<<"String", key>>) \o value
         [] u.repr = "Kinded" -> value
         [] u.repr = "String" -> encode_prim(<<"String", key>>)
         [] u.repr = "Int" -> encode_prim(<<"u64", self[1] - 1>>)

\* fn gen_encode
gen_encode(ast, self) ==
    IF ast[1] = "Struct" THEN gen_encode_struct(ast[2], self)
    ELSE gen_encode_union(ast[2], self)

\* the #(#fields)* of the Map arm of gen_try_read_cbor_struct
RECURSIVE read_map_fields(_, _, _)
read_map_fields(fields, r, bindings) ==
    IF Len(fields) = 0 THEN Matched(bindings, r)
    ELSE Only({ IF key.k # "Some" THEN key
                ELSE Only({ IF binding.k # "Some" THEN binding
                            ELSE read_map_fields(Tail(fields), binding.r,
                                                 Append(bindings, binding.v)) :
                            binding \in {decode_prim(Head(fields).ty, key.r)} }) :
                key \in {read_key(r, rename(Head(fields).name,
                                            Head(fields).rename))} })

\* the #(#fields)* of the Tuple arm of gen_try_read_cbor_struct
RECURSIVE read_tuple_fields(_, _, _)
read_tuple_fields(fields, r, bindings) ==
    IF Len(fields) = 0 THEN Matched(bindings, r)
    ELSE Only({ IF binding.k # "Some" THEN binding
                ELSE read_tuple_fields(Tail(fields), binding.r,
                                       Append(bindings, binding.v)) :
                binding \in {decode_prim(Head(fields).ty, r)} })

\* mutant of read_fixed: a header of another length is not this shape
read_fixed_soft_length(s, r, low) ==
    Only({ IF len.k # "Some" THEN len
           ELSE IF len.v # Len(s.fields) THEN NotThisShape(len.r)
           ELSE Only({ IF fields.k # "Some" THEN fields
                       ELSE Matched(construct(s, fields.v), fields.r) :
                       fields \in {IF s.repr = "Map"
                                   THEN read_map_fields(s.fields, len.r, <<>>)
                                   ELSE read_tuple_fields(s.fields, len.r, <<>>)} }) :
           len \in {read_len(r, low)} })

\* the header check of the Map and Tuple arms, then the fields
read_fixed(s, r, low) ==
    Only({ IF len.k # "Some" THEN len
           ELSE IF len.v # Len(s.fields) THEN Malformed(LengthOutOfRange, len.r)
           ELSE Only({ IF fields.k # "Some" THEN fields
                       ELSE Matched(construct(s, fields.v), fields.r) :
                       fields \in {IF s.repr = "Map"
                                   THEN read_map_fields(s.fields, len.r, <<>>)
                                   ELSE read_tuple_fields(s.fields, len.r, <<>>)} }) :
           len \in {read_len(r, low)} })

\* fn gen_try_read_cbor_struct: the generated body run on (r, major)
gen_try_read_cbor_struct(s, r, major) ==
    CASE s.repr = "Map" ->
           IF major >= 160 /\ major <= 187
           THEN read_fixed(s, r, major - 160)
           ELSE NotThisShape(r)
      [] s.repr = "Tuple" ->
           IF major >= 128 /\ major <= 155
           THEN read_fixed(s, r, major - 128)
           ELSE NotThisShape(r)
      [] s.repr = "Value" ->
           Only({ IF t.k = "Some" THEN Matched(construct(s, <<t.v>>), t.r) ELSE t :
                  t \in {try_read_prim(s.fields[1].ty, r, major)} })
      [] s.repr = "Null" ->
           IF major >= 246 /\ major <= 247
           THEN Matched(construct(s, <<>>), r)
           ELSE NotThisShape(r)

\* mutant of keyed_variants: an unknown key is reported as not this shape
keyed_variants_soft(variants, key, r) == NotThisShape(r)

\* the #(#variants;)* of the Keyed arm and the error that follows them
RECURSIVE keyed_variants(_, _, _)
keyed_variants(variants, key, r) ==
    IF Len(variants) = 0
    THEN Malformed(TypeError_new(<<"Key", key>>, <<"Null">>), r)
    ELSE IF key = rename(Named(Head(variants).name), Head(variants).rename)
    THEN Only({ IF major.k # "Some" THEN major
                ELSE Only({ IF t.k = "None"
                            THEN keyed_variants(Tail(variants), key, t.r)
                            ELSE t :
                            t \in {gen_try_read_cbor_struct(Head(variants),
                                                           major.r, major.v)} }) :
                major \in {read_u8(r)} })
    ELSE keyed_variants(Tail(variants), key, r)

\* mutant of kinded_variants: the variants are tried last to first
RECURSIVE kinded_variants_reversed(_, _, _)
kinded_variants_reversed(variants, r, major) ==
    IF Len(variants) = 0
    THEN Malformed(TypeError_new(<<"Null">>, <<"Null">>), r)
    ELSE Only({ IF t.k = "None"
                THEN kinded_variants_reversed(
                         SubSeq(variants, 1, Len(variants) - 1), r, major)
                ELSE t :
                t \in {gen_try_read_cbor_struct(variants[Len(variants)],
                                               r, major)} })

\* the #(#variants;)* of the Kinded arm and the error that follows them
RECURSIVE kinded_variants(_, _, _)
kinded_variants(variants, r, major) ==
    IF Len(variants) = 0
    THEN Malformed(TypeError_new(<<"Null">>, <<"Null">>), r)
    ELSE Only({ IF t.k = "None" THEN kinded_variants(Tail(variants), t.r, major)
                ELSE t :
                t \in {gen_try_read_cbor_struct(Head(variants), r, major)} })

\* mutant of string_arms: a string that names no variant is not this shape
string_arms_soft(variants, key, r) ==
    IF \E i \in 1..Len(variants) :
          key = rename(Named(variants[i].name), variants[i].rename)
    THEN LET i == CHOOSE i \in 1..Len(variants) :
                    /\ key = rename(Named(variants[i].name), variants[i].rename)
                    /\ \A j \in 1..(i - 1) :
                          key # rename(Named(variants[j].name), variants[j].rename)
         IN Matched(construct(variants[i], <<>>), r)
    ELSE NotThisShape(r)

\* the match of the String arm: the first variant whose name is key
RECURSIVE string_arms(_, _, _)
string_arms(variants, key, r) ==
    IF Len(variants) = 0
    THEN Malformed(TypeError_new(<<"Key", key>>, <<"Null">>), r)
    ELSE LET s == Head(variants)
         IN IF key = rename(Named(s.name), s.rename)
            THEN Matched(construct(s, <<>>), r)
            ELSE string_arms(Tail(variants), key, r)

\* the match of the Int arm: the first variant whose discriminant is key
RECURSIVE int_arms(_, _, _)
int_arms(variants, key, r) ==
    IF Len(variants) = 0
    THEN Malformed(TypeError_new(<<"Key", to_string(key)>>, <<"Null">>), r)
    ELSE LET s == Head(variants)
         IN IF key = s.construct[2] - 1
            THEN Matched(construct(s, <<>>), r)
            ELSE int_arms(Tail(variants), key, r)

\* fn gen_try_read_cbor_union: the generated body run on (r, major)
gen_try_read_cbor_union(u, r, major) ==
    CASE u.repr = "Keyed" ->
           IF major # 161 THEN NotThisShape(r)
           ELSE Only({ IF key.k # "Some" THEN key
                       ELSE keyed_variants(u.variants, key.v[2], key.r) :
                       key \in {decode_prim("String", r)} })
      [] u.repr = "Kinded" -> kinded_variants(u.variants, r, major)
      [] u.repr = "String" ->
           Only({ IF key.k # "Some" THEN key
                  ELSE string_arms(u.variants, key.v[2], key.r) :
                  key \in {try_read_prim("String", r, major)} })
      [] u.repr = "Int" ->
           Only({ IF key.k # "Some" THEN key
                  ELSE int_arms(u.variants, key.v[2], key.r) :
                  key \in {try_read_prim("u64", r, major)} })

\* fn gen_try_read_cbor
gen_try_read_cbor(ast, r, major) ==
    IF ast[1] = "Struct" THEN gen_try_read_cbor_struct(ast[2], r, major)
    ELSE gen_try_read_cbor_union(ast[2], r, major)

\* fn gen_decode: libipld::cbor::decode::read(r)
gen_decode(ast, r) ==
    Only({ IF major.k # "Some" THEN major
           ELSE Only({ read(probe) :
                       probe \in {gen_try_read_cbor(ast, major.r, major.v)} }) :
           major \in {read_u8(r)} })

(***************************************************************************)
(* The derive inputs of the model.                                         *)
(***************************************************************************)
Field(name, renamed, dflt, t) ==
    [name |-> name, rename |-> renamed, default |-> dflt, ty |-> t]

Struct(name, renamed, repr, fields, cons) ==
    [name |-> name, rename |-> renamed, repr |-> repr, fields |-> fields,
     construct |-> cons]

Union(name, repr, variants) == [name |-> name, repr |-> repr, variants |-> variants]

\* Default::default() of the field types
default_of(t) ==
    CASE t = "bool" -> <<t, FALSE>>
      [] t = "u32" -> <<t, 0>>
      [] t = "String" -> <<t, <<>>>>

ValuesOfType(t) ==
    CASE t = "bool" -> {<<t, FALSE>>, <<t, TRUE>>}
      [] t = "u32" -> {<<t, 0>>, <<t, 1>>, <<t, 24>>}
      [] t = "String" -> {<<t, <<>>>>, <<t, str_murmur3>>}

\* a field with or without #[ipld(default = ...)]
Defaults(t) == {None, Some(default_of(t))}

\* named fields (struct S { boolean: bool, n: u32 }), distinct names
NamedPool ==
    { Field(Named(str_boolean), None, d, "bool") : d \in Defaults("bool") }
    \cup { Field(Named(str_n), None, d, "u32") : d \in Defaults("u32") }

RECURSIVE NamedFields(_)
NamedFields(n) ==
    IF n = 0 THEN {<<>>}
    ELSE { Append(p[1], p[2]) :
           p \in { q \in NamedFields(n - 1) \X NamedPool :
                   \A i \in 1..Len(q[1]) : q[1][i].name # q[2].name } }

\* unnamed fields (struct S(bool, u32)), named by position
RECURSIVE UnnamedFields(_)
UnnamedFields(n) ==
    IF n = 0 THEN {<<>>}
    ELSE UNION { { Append(fs, Field(Unnamed(n - 1), None, d, t)) :
                   fs \in UnnamedFields(n - 1), d \in Defaults(t) } :
                 t \in {"bool", "u32"} }

FieldLists(n) == NamedFields(n) \cup UnnamedFields(n)

str_S == <<83>>

Structs ==
    UNION { { Struct(str_S, None, repr, fs, <<"Struct">>) :
              repr \in {"Map", "Tuple"}, fs \in FieldLists(n) } :
            n \in 0..MaxFields }
    \cup { Struct(str_S, None, "Value", fs, <<"Struct">>) : fs \in FieldLists(1) }
    \cup { Struct(str_S, None, "Null", <<>>, <<"Struct">>) }

\* examples/name_attr.rs: struct RenameFields
RenameFields ==
    Struct(<<82>>, None, "Map",
           <<Field(Named(str_hash_alg), Some(str_hashAlg), None, "String")>>,
           <<"Struct">>)

\* the shapes a variant of a generated union takes
Shape(renamed, repr, fields) == [rename |-> renamed, repr |-> repr, fields |-> fields]

unnamed_bool(i) == Field(Unnamed(i), None, None, "bool")

NullShapes == { Shape(None, "Null", <<>>), Shape(Some(str_b), "Null", <<>>) }

Shapes ==
    NullShapes
    \cup { Shape(Some(str_b), "Value", <<unnamed_bool(0)>>),
           Shape(None, "Value", <<Field(Named(str_n), None, None, "u32")>>),
           Shape(None, "Tuple", <<unnamed_bool(0)>>),
           Shape(None, "Tuple", <<unnamed_bool(0), unnamed_bool(1)>>),
           Shape(None, "Map", <<Field(Named(str_boolean), None, None, "bool")>>) }

VariantNames == <<str_A, str_B, str_C, str_D, str_E>>

variant(shape, i) ==
    Struct(VariantNames[i], shape.rename, shape.repr, shape.fields, <<"Variant", i>>)

variants_of(shapes) == [i \in 1..Len(shapes) |-> variant(shapes[i], i)]

str_U == <<85>>

Unions ==
    UNION { { Union(str_U, repr, variants_of(shapes)) :
              repr \in {"Keyed", "Kinded"}, shapes \in [1..n -> Shapes] } :
            n \in 1..MaxVariants }
    \cup UNION { { Union(str_U, repr, variants_of(shapes)) :
                   repr \in {"String", "Int"}, shapes \in [1..n -> NullShapes] } :
                 n \in 1..MaxVariants }

\* tests/union.rs: enum Keyed and enum Kinded
test_variants ==
    variants_of(<<Shape(None, "Null", <<>>),
                  Shape(Some(str_b), "Value", <<unnamed_bool(0)>>),
                  Shape(None, "Value", <<Field(Named(str_n), None, None, "u32")>>),
                  Shape(None, "Tuple", <<unnamed_bool(0)>>),
                  Shape(None, "Map", <<Field(Named(str_boolean), None, None, "bool")>>)>>)

Keyed == Union(<<75>>, "Keyed", test_variants)
Kinded == Union(<<75, 105>>, "Kinded", test_variants)

\* a Kinded union of tuple variants: one field, then two variants of two
KindedTuples ==
    Union(<<75, 84>>, "Kinded",
          variants_of(<<Shape(None, "Tuple", <<unnamed_bool(0)>>),
                        Shape(None, "Tuple", <<unnamed_bool(0), unnamed_bool(1)>>),
                        Shape(None, "Tuple", <<unnamed_bool(0), unnamed_bool(1)>>)>>))

SchemaTypes ==
    { <<"Struct", s>> : s \in Structs \cup {RenameFields} }
    \cup { <<"Union", u>> : u \in Unions \cup {Keyed, Kinded, KindedTuples} }

\* every assignment of values to a field list
RECURSIVE Bindings(_)
Bindings(fields) ==
    IF Len(fields) = 0 THEN {<<>>}
    ELSE { <<v>> \o rest :
           v \in ValuesOfType(Head(fields).ty), rest \in Bindings(Tail(fields)) }

\* every value of the type
ValuesOf(ast) ==
    IF ast[1] = "Struct" THEN Bindings(ast[2].fields)
    ELSE UNION { { <<i, b>> : b \in Bindings(ast[2].variants[i].fields) } :
                 i \in 1..Len(ast[2].variants) }

\* the generic values whose encoding is handed to decode
one_entry(key, v) == StringMap(map_of(<<key>>, <<v>>))

InputValues ==
    { Null, Bool(TRUE), Integer(1), Integer(5), String(str_A), String(str_Z),
      List(<<Bool(TRUE)>>), List(<<Bool(TRUE), Bool(FALSE)>>),
      one_entry(str_boolean, Bool(TRUE)),
      one_entry(str_Z, Null), one_entry(str_A, Null), one_entry(str_A, Bool(TRUE)),
      one_entry(str_b, Bool(TRUE)), one_entry(str_b, Bool(FALSE)),
      one_entry(str_b, Null),
      one_entry(str_C, Integer(1)), one_entry(str_C, List(<<Bool(TRUE)>>)),
      one_entry(str_C, one_entry(str_boolean, Bool(TRUE))) }

(***************************************************************************)
(* Codec scenario: one derive input and one value of it; encode the value  *)
(* and decode the bytes written, or decode the encoding of a generic       *)
(* value.                                                                  *)
(***************************************************************************)
Init ==
    /\ ty \in SchemaTypes
    /\ x \in ValuesOf(ty)
    /\ w = <<>> /\ res = None /\ input = None
    /\ pc = "init"
    /\ ipld = None /\ index = None /\ got = None /\ taken = None
    /\ stack = <<>> /\ yielded = <<>> /\ set = <<>>

Encode ==
    /\ pc = "init"
    /\ w' = gen_encode(ty, x)
    /\ pc' = "encoded"
    /\ UNCHANGED <<ty, x, res, input>>
    /\ UNCHANGED ipld_vars

Decode ==
    /\ pc = "encoded"
    /\ res' = gen_decode(ty, w)
    /\ pc' = "decoded"
    /\ UNCHANGED <<ty, x, w, input>>
    /\ UNCHANGED ipld_vars

DecodeIpld ==
    /\ pc = "init"
    /\ \E v \in InputValues :
        /\ input' = v
        /\ w' = encode_ipld(v)
        /\ res' = gen_decode(ty, encode_ipld(v))
    /\ pc' = "probed"
    /\ UNCHANGED <<ty, x>>
    /\ UNCHANGED ipld_vars

\* the generated TryReadCbor::try_read_cbor called by a reader that has read
\* the leading marker of the encoding of a generic value
TryReadCbor ==
    /\ pc = "init"
    /\ \E v \in InputValues :
        /\ input' = v
        /\ w' = encode_ipld(v)
        /\ res' = Only({ IF major.k # "Some" THEN major
                         ELSE gen_try_read_cbor(ty, major.r, major.v) :
                         major \in {read_u8(encode_ipld(v))} })
    /\ pc' = "tried"
    /\ UNCHANGED <<ty, x>>
    /\ UNCHANGED ipld_vars

Next == Encode \/ Decode \/ DecodeIpld \/ TryReadCbor

Spec == Init /\ [][Next]_vars

(***************************************************************************)
(* Properties of the generated codec.                                      *)
(***************************************************************************)
IsStruct == ty[1] = "Struct"
IsUnion == ty[1] = "Union"

\* the records of the derive input: the record itself or the variants
RecordsOf(ast) ==
    IF ast[1] = "Struct" THEN {ast[2]}
    ELSE {ast[2].variants[i] : i \in 1..Len(ast[2].variants)}

DeclaresDefault(s) == \E i \in 1..Len(s.fields) : s.fields[i].default # None

NoDefaults(ast) == \A s \in RecordsOf(ast) : ~DeclaresDefault(s)

\* the key a variant goes by on the wire
KeyOf(s) == IF s.rename # None THEN s.rename[1] ELSE s.name

\* the leading markers on which a record does not answer not-this-shape
Markers(s) ==
    CASE s.repr = "Map" -> 160..187
      [] s.repr = "Tuple" -> 128..155
      [] s.repr = "Null" -> 246..247
      [] s.repr = "Value" ->
           CASE s.fields[1].ty = "bool" -> 244..245
             [] s.fields[1].ty = "u32" -> 0..27
             [] s.fields[1].ty = "String" -> 96..123

DisjointMarkers(u) ==
    \A i, j \in 1..Len(u.variants) :
        i < j => Markers(u.variants[i]) \cap Markers(u.variants[j]) = {}

DistinctKeys(u) ==
    \A i, j \in 1..Len(u.variants) :
        i < j => KeyOf(u.variants[i]) # KeyOf(u.variants[j])

RoundTrips == res.k = "Some" /\ res.v = x

\* C1 as claimed: without defaults, and for Kinded with variants of
\* pairwise disjoint leading markers, decode(encode(x)) = x for every
\* record and union representation.
C1_RoundTrip_AsClaimed ==
    (/\ pc = "decoded"
     /\ NoDefaults(ty)
     /\ (IsUnion /\ ty[2].repr = "Kinded") => DisjointMarkers(ty[2]))
    => RoundTrips

\* C1 as amended: the same, for unions whose variants go by pairwise
\* distinct keys (name or rename) when the representation is Keyed or
\* String.
C1_RoundTrip ==
    (/\ pc = "decoded"
     /\ NoDefaults(ty)
     /\ (IsUnion /\ ty[2].repr = "Kinded") => DisjointMarkers(ty[2])
     /\ (IsUnion /\ ty[2].repr \in {"Keyed", "String"}) => DistinctKeys(ty[2]))
    => RoundTrips

\* the second variant of a Kinded union of a list and a map came back
C1_Witness ==
    /\ pc = "decoded"
    /\ IsUnion /\ ty[2].repr = "Kinded"
    /\ Len(ty[2].variants) = 2
    /\ ty[2].variants[1].repr = "Tuple" /\ ty[2].variants[2].repr = "Map"
    /\ x = <<2, <<<<"bool", TRUE>>>>>>
    /\ w = <<161, 103>> \o str_boolean \o <<245>>
    /\ res.k = "Some" /\ res.v = x

\* C2: a record in Map, Tuple or Value representation with declared
\* defaults round-trips for every assignment of its fields, those at the
\* default included.
C2_RoundTripWithDefaults ==
    (/\ pc = "decoded"
     /\ IsStruct /\ ty[2].repr \in {"Map", "Tuple", "Value"}
     /\ DeclaresDefault(ty[2]))
    => RoundTrips

\* the fields of a record the encoder emits: those not at a declared default
Emitted(s, bindings) ==
    { i \in 1..Len(s.fields) :
        s.fields[i].default = None \/ bindings[i] # s.fields[i].default[1] }

\* C3: the map/list header a Map or Tuple record writes carries the number
\* of fields emitted after default elision.
C3_HeaderCountsEmitted ==
    (/\ pc = "encoded"
     /\ IsStruct /\ ty[2].repr \in {"Map", "Tuple"})
    => w[1] = (IF ty[2].repr = "Map" THEN 160 ELSE 128)
              + Cardinality(Emitted(ty[2], x))

\* the bytes of a text string
Text(str) == <<96 + Len(str)>> \o str

TestValues ==
    { <<1, <<>>>>, <<2, <<<<"bool", TRUE>>>>>>, <<2, <<<<"bool", FALSE>>>>>>,
      <<3, <<<<"u32", 1>>>>>>, <<4, <<<<"bool", TRUE>>>>>>,
      <<5, <<<<"bool", TRUE>>>>>> }

\* the generic value tests/union.rs pairs with a value of enum Keyed
Paired(v) ==
    CASE v[1] = 1 -> one_entry(str_A, Null)
      [] v[1] = 2 -> one_entry(str_b, Bool(v[2][1][2]))
      [] v[1] = 3 -> one_entry(str_C, Integer(v[2][1][2]))
      [] v[1] = 4 -> one_entry(str_C, List(<<Bool(v[2][1][2])>>))
      [] v[1] = 5 -> one_entry(str_C, one_entry(str_boolean, Bool(v[2][1][2])))

\* C5: every variant of the test's Keyed union is written exactly as the
\* generic value the test pairs it with, and that encoding decodes to the
\* variant.
C5_KeyedTestPairs ==
    (ty = <<"Union", Keyed>> /\ x \in TestValues) =>
        /\ pc = "encoded" => w = encode_ipld(Paired(x))
        /\ (pc = "probed" /\ input = Paired(x)) => RoundTrips

\* C6: a one-entry map whose key names no variant of a Keyed union is
\* malformed, with a TypeError whose Key is the offending key.
C6_KeyedUnknownKey ==
    (/\ pc = "probed"
     /\ IsUnion /\ ty[2].repr = "Keyed"
     /\ input[1] = "StringMap" /\ Cardinality(DOMAIN input[2]) = 1) =>
        \A key \in DOMAIN input[2] :
            (\A i \in 1..Len(ty[2].variants) : KeyOf(ty[2].variants[i]) # key)
            => /\ res.k = "Err"
               /\ res.v[1] = "TypeError"
               /\ res.v[2] = <<"Key", key>>

\* {"Z": null} against a Keyed union of A and B named "Z"
C6_Witness ==
    /\ pc = "probed"
    /\ IsUnion /\ ty[2].repr = "Keyed"
    /\ Len(ty[2].variants) = 2
    /\ KeyOf(ty[2].variants[1]) = str_A /\ KeyOf(ty[2].variants[2]) = str_B
    /\ input = one_entry(str_Z, Null)
    /\ res.k = "Err"
    /\ res.v = <<"TypeError", <<"Key", str_Z>>, <<"Null">>>>

\* the variants of a union whose own record decode matches the bytes in w
Accepting(u) ==
    { i \in 1..Len(u.variants) :
        Len(w) > 0 /\ gen_try_read_cbor_struct(u.variants[i], Tail(w), Head(w)).k = "Some" }

Min(S) == CHOOSE m \in S : \A o \in S : m <= o

\* C7 as claimed: a Kinded decode returns the first declared variant whose
\* record decode matches; when two or more variants accept the input the
\* result is the earliest of them.
C7_KindedFirstMatch_AsClaimed ==
    (pc \in {"decoded", "probed"} /\ IsUnion /\ ty[2].repr = "Kinded") =>
        /\ res.k = "Some" => res.v[1] = Min(Accepting(ty[2]))
        /\ Cardinality(Accepting(ty[2])) >= 2 =>
              res.k = "Some" /\ res.v[1] = Min(Accepting(ty[2]))

\* the variants declared before position i that fail fatally on the bytes in w
FatalBefore(u, i) ==
    { j \in 1..(i - 1) :
        gen_try_read_cbor_struct(u.variants[j], Tail(w), Head(w)).k = "Err" }

\* C7 as amended: a Kinded decode never returns a variant declared after
\* the first one that matches; when two or more variants accept the input
\* and no variant declared before them fails fatally on it, the result is
\* the earliest of them, and otherwise the decode fails.
C7_KindedFirstMatch ==
    (pc \in {"decoded", "probed"} /\ IsUnion /\ ty[2].repr = "Kinded") =>
        /\ res.k = "Some" => res.v[1] = Min(Accepting(ty[2]))
        /\ Cardinality(Accepting(ty[2])) >= 2 =>
              IF FatalBefore(ty[2], Min(Accepting(ty[2]))) = {}
              THEN res.k = "Some" /\ res.v[1] = Min(Accepting(ty[2]))
              ELSE res.k = "Err"

\* true against two variants that both take a bare boolean gave the first
C7_Witness ==
    /\ pc = "probed"
    /\ IsUnion /\ ty[2].repr = "Kinded"
    /\ input = Bool(TRUE)
    /\ Accepting(ty[2]) = {1, 2}
    /\ res.k = "Some"
    /\ res.v = <<1, <<<<"bool", TRUE>>>>>>

\* the error value names a key or an index
Carries(e) ==
    /\ e[1] = "TypeError"
    /\ e[2][1] \in {"Key", "Index"} \/ e[3][1] \in {"Key", "Index"}

\* the input is of the record's own marker kind, with another length
WrongLength(s) ==
    \/ /\ s.repr = "Map" /\ input[1] = "StringMap"
       /\ Cardinality(DOMAIN input[2]) # Len(s.fields)
    \/ /\ s.repr = "Tuple" /\ input[1] = "List"
       /\ Len(input[2]) # Len(s.fields)

\* the leading marker of the input is one no variant of the union answers
NoVariantAnswers(u) ==
    \A i \in 1..Len(u.variants) : Head(w) \notin Markers(u.variants[i])

\* the input is a key, string or ordinal of the union's kind that names no
\* variant
UnknownDiscriminant(u) ==
    \/ /\ u.repr = "Keyed"
       /\ input[1] = "StringMap" /\ Cardinality(DOMAIN input[2]) = 1
       /\ \A key \in DOMAIN input[2] :
            \A i \in 1..Len(u.variants) : KeyOf(u.variants[i]) # key
    \/ /\ u.repr = "String" /\ input[1] = "String"
       /\ \A i \in 1..Len(u.variants) : KeyOf(u.variants[i]) # input[2]
    \/ /\ u.repr = "Int" /\ input[1] = "Integer"
       /\ input[2] \notin 0..(Len(u.variants) - 1)

\* C11: every fatal outcome of a generated decode carries the offending
\* key, index or discriminant in the error value: for a Map or Tuple header
\* of the wrong length, for a Kinded union no variant of which matched, and
\* for an unknown key, string or ordinal of a Keyed, String or Int union.
C11_FatalCarriesValue ==
    pc = "probed" =>
        /\ (IsStruct /\ WrongLength(ty[2])) => res.k = "Err" /\ Carries(res.v)
        /\ (IsUnion /\ ty[2].repr = "Kinded" /\ NoVariantAnswers(ty[2])) =>
              res.k = "Err" /\ Carries(res.v)
        /\ (IsUnion /\ UnknownDiscriminant(ty[2])) =>
              res.k = "Err" /\ Carries(res.v)

\* the bytes in w open with a header of the record's own kind whose length
\* (held in the marker) is not the record's field count
WrongLengthOnWire(s) ==
    \/ /\ s.repr = "Map" /\ Head(w) \in 160..183
       /\ Head(w) - 160 # Len(s.fields)
    \/ /\ s.repr = "Tuple" /\ Head(w) \in 128..151
       /\ Head(w) - 128 # Len(s.fields)

\* the variants of a union that do not answer not-this-shape to the leading
\* marker of w
Answering(u) ==
    { i \in 1..Len(u.variants) : Head(w) \in Markers(u.variants[i]) }

\* C12: a Map or Tuple record that sees its own marker kind with a length
\* other than its field count fails with LengthOutOfRange; in a Kinded
\* union that failure of the first variant to answer the marker is the
\* result of the whole decode, whatever later variants would accept; a
\* variant is only passed over when it answers not-this-shape, and when
\* every variant does, the decode is malformed.
C12_FixedArityFatal ==
    (pc \in {"decoded", "probed"} /\ Len(w) > 0) =>
        /\ (IsStruct /\ WrongLengthOnWire(ty[2])) =>
              res.k = "Err" /\ res.v = LengthOutOfRange
        /\ (IsUnion /\ ty[2].repr = "Kinded") =>
              /\ Answering(ty[2]) = {} =>
                    /\ res.k = "Err"
                    /\ res.v = TypeError_new(<<"Null">>, <<"Null">>)
              /\ (/\ Answering(ty[2]) # {}
                  /\ WrongLengthOnWire(ty[2].variants[Min(Answering(ty[2]))])) =>
                    res.k = "Err" /\ res.v = LengthOutOfRange
              /\ res.k = "Some" => res.v[1] = Min(Answering(ty[2]))

\* [true, false] against tuple variants of one, two and two fields: the
\* first variant's length check ended the decode although the second accepts
C12_Witness ==
    /\ pc = "probed"
    /\ ty = <<"Union", KindedTuples>>
    /\ input = List(<<Bool(TRUE), Bool(FALSE)>>)
    /\ 2 \in Accepting(ty[2])
    /\ res.k = "Err"
    /\ res.v = LengthOutOfRange

\* C13: a generated probe that answers not-this-shape has read nothing
\* after the leading marker its caller handed it; a probe that has read
\* anything further answers matched or malformed.
C13_NotThisShapeConsumesNothing ==
    pc = "tried" =>
        /\ res.k = "None" => res.r = Tail(w)
        /\ res.r # Tail(w) => res.k \in {"Some", "Err"}

\* [true] against a Map record: not this shape, and the element is unread
C13_Witness ==
    /\ pc = "tried"
    /\ IsStruct /\ ty[2].repr = "Map"
    /\ input = List(<<Bool(TRUE)>>)
    /\ res.k = "None"
    /\ res.r = <<245>>

(***************************************************************************)
(* Properties of the value model.                                          *)
(***************************************************************************)
IsTypeError(r) ==
    /\ r.k = "Err"
    /\ r.v[1] = "TypeError"
    /\ r.v[2][1] \in {"Index", "Key"}

\* C8: on a List of length n, get(i) and take(i) by position succeed iff
\* i < n, get then refers to element i and take returns an equal value;
\* otherwise both return a TypeError.  On a StringMap, get(k) and take(k)
\* succeed iff k is a key and yield the value mapped at k.
C8_GetTakeAgree ==
    /\ (pc \in {"got", "taken"} /\ ipld[1] = "List" /\ index[1] = "List") =>
          LET i == index[2]
              l == ipld[2]
          IN /\ IF i < Len(l)
                THEN got.k = "Ok" /\ got.v = l[i + 1]
                ELSE IsTypeError(got)
             /\ pc = "taken" =>
                   IF i < Len(l)
                   THEN taken.k = "Ok" /\ taken.v = got.v
                   ELSE IsTypeError(taken)
    /\ (pc \in {"got", "taken"} /\ ipld[1] = "StringMap" /\ index[1] # "List") =>
          LET key == index[2]
              m == ipld[2]
          IN /\ IF key \in DOMAIN m
                THEN got.k = "Ok" /\ got.v = m[key]
                ELSE IsTypeError(got)
             /\ pc = "taken" =>
                   IF key \in DOMAIN m
                   THEN taken.k = "Ok" /\ taken.v = m[key]
                   ELSE IsTypeError(taken)

\* take(0) on a two-element list succeeded and left the other element
C8_Witness ==
    /\ pc = "taken"
    /\ ipld = List(<<Integer(7), Link(1)>>)
    /\ index = IpldIndex_List(0)
    /\ got.k = "Ok" /\ taken.k = "Ok"
    /\ taken.v = Integer(7)
    /\ taken.self = List(<<Link(1)>>)

\* C9: on every List and StringMap, get(i) and get(decimal-string(i))
\* succeed in the same cases and then refer to the same element.
C9_PositionEqualsDecimalString ==
    (pc = "got" /\ index[1] = "List" /\ ipld[1] \in {"List", "StringMap"}) =>
        LET byString == get(ipld, IpldIndex_Map(DecimalOf(index[2])))
        IN /\ got.k = byString.k
           /\ got.k = "Ok" => got.v = byString.v

\* get(10) found the value a StringMap holds under the key "10"
C9_Witness ==
    /\ pc = "got"
    /\ index = IpldIndex_List(10)
    /\ ipld[1] = "StringMap"
    /\ str_10 \in DOMAIN ipld[2]
    /\ got.k = "Ok"
    /\ got.v = ipld[2][str_10]

\* the nodes of a value in depth-first pre-order
RECURSIVE PreOrder(_)
RECURSIVE PreOrderAll(_)
PreOrderAll(children) ==
    IF Len(children) = 0 THEN <<>>
    ELSE PreOrder(Head(children)) \o PreOrderAll(Tail(children))

PreOrder(v) ==
    <<v>> \o
    CASE v[1] = "List" -> PreOrderAll(v[2])
      [] v[1] = "StringMap" ->
           LET keys == SortedKeys(DOMAIN v[2])
           IN PreOrderAll([i \in 1..Len(keys) |-> v[2][keys[i]]])
      [] v[1] = "IntegerMap" ->
           LET keys == SortedInts(DOMAIN v[2])
           IN PreOrderAll([i \in 1..Len(keys) |-> v[2][keys[i]]])
      [] v[1] = "Tag" -> PreOrder(v[2][2])
      [] OTHER -> <<>>

\* the identifiers of the Links among a sequence of nodes, in order
RECURSIVE LinksOf(_)
LinksOf(nodes) ==
    IF Len(nodes) = 0 THEN <<>>
    ELSE (IF Head(nodes)[1] = "Link" THEN <<Head(nodes)[2]>> ELSE <<>>)
         \o LinksOf(Tail(nodes))

IsPrefix(a, b) == Len(a) <= Len(b) /\ a = SubSeq(b, 1, Len(a))

\* C10: iterate() yields the nodes of the value in depth-first pre-order,
\* the value itself first, each once, and then ends; references() appends
\* the identifier of every Link occurrence, in that order, duplicates
\* kept, after what the accumulator held.
C10_PreOrderTraversal ==
    /\ pc = "iterating" => IsPrefix(yielded, PreOrder(ipld))
    /\ pc = "exhausted" => yielded = PreOrder(ipld) /\ stack = <<>>
    /\ pc = "collected" =>
          \E held \in Accumulators : set = held \o LinksOf(PreOrder(ipld))

\* the nested IpldIter::next invocations of a call on a work-list whose top
\* cursor is the iterator of one leaf: the call and the one it delegates to
FramesOneLevel == next(<<Cursor("IpldIter", iter(Null))>>).frames

\* C14: at every step of a traversal the number of nested next() invocations
\* in progress stays within a constant that does not grow with the nesting
\* of the value, through Lists, StringMaps, IntegerMaps and Tags: a value
\* nested deeper needs no more of them than one level of nesting does.
C14_ConstantFrames ==
    pc = "iterating" => next(stack).frames <= FramesOneLevel

=============================================================================
